---- MODULE Spec2Model ----
(***************************************************************************)
(* The chat page of hicap-oss/VercelSDK-chatTest as a state machine.       *)
(*                                                                         *)
(* The repository holds two implementations of the page:                   *)
(*   "effect"  : src/app/page.tsx:1-324, a useEffect that wraps            *)
(*               window.fetch while the component is mounted and taps the  *)
(*               /api/chat response when showRaw is set (handleSubmit);    *)
(*   "oneshot" : src/app/page.tsx:325-665 (and the same code again in      *)
(*               src/unnamed/part_000:1309-1644), an onResponse option     *)
(*               plus a one-shot fetch wrapper installed by every          *)
(*               accepted submit (onSubmit).                               *)
(*                                                                         *)
(* The useChat hook, window.fetch, Response and the stream readers are the *)
(* environment.  The hook owns status, error and the message list;         *)
(* sendMessage returns a promise and the hook starts the request (status   *)
(* 'submitted', the user message, the fetch call) in a later microtask.    *)
(* React renders the state a user event sets before the next event, so a   *)
(* handler reads the latest input, showRaw and status.  The network        *)
(* delivers chunks in tasks of their own, and every reader of a response   *)
(* (the hook's and each tap's) advances at its own pace.                   *)
(***************************************************************************)
EXTENDS Integers, Sequences, FiniteSets, TLC

\* Bounds of the model.
MaxSubmits == 2     \* accepted submits in one run
MaxChunks == 2      \* chunks the network delivers in one run, over all responses
MaxOthers == 1      \* fetches to other URLs in one run

SelectableModel ==
    {"gemini-2.5-pro", "gemini-2.5-flash", "claude-sonnet-4",
     "claude-sonnet-4.5"}

Variants == {"effect", "oneshot"}

\* Texts the user can have in the input box (sequences of characters).
Inputs == {<<>>, <<" ">>, <<" ", "h", " ">>}

\* The k-th chunk of a streamed body.  The relay sends the text "a\u00e9"
\* over and over and the transport cuts it inside the two-byte character, so
\* a chunk that is lost, repeated or out of place decodes to U+FFFD.
WireChunk(k) == IF k % 2 = 1 THEN <<97, 195>> ELSE <<169>>

\* What a resolved fetch can hand to the wrappers: a streamed body, a null
\* body, or a response whose body is already used, so that clone() throws and
\* no reader gets a chunk.
Kinds == {"stream", "nullbody", "used"}

\* U+FFFD, what the decoder puts in place of a malformed sequence, and U+FEFF.
Replacement == 65533
ByteOrderMark == 65279

VARIABLES
    variant,         \* which implementation of the page is mounted
    hookOnResponse,  \* whether this version of the hook calls options.onResponse
    input,           \* useState input / text
    rawStream,       \* useState rawStream, a sequence of code points
    showRaw,         \* useState showRaw
    status,          \* useChat status
    error,           \* useChat error ("none" when undefined)
    reqs,            \* the sendMessage calls so far, in order
    taps,            \* the tap read loops started so far, in order
    wrappers,        \* the one-shot fetch wrappers installed so far
    winFetch,        \* window.fetch: the outermost one-shot wrapper, 0 when none
    relay,           \* app/api/chat/route.ts: one call of POST and its timer
    storage,         \* localStorage item 'api_endpoint_url'
    endpointUrl,     \* useState endpointUrl of the chat page
    chatLoaded,      \* whether the chat page's mount effect has run
    settings,        \* app/settings/page.tsx: its state
    message,         \* one entry of the hook's messages
    applied,         \* the stream events applied to it so far
    shown,           \* what the page renders for it
    model,           \* useState model of the chat page
    others           \* the fetches to other URLs resolved so far

\* The persisted endpoint and the pages' copies of it.
config == <<storage, endpointUrl, chatLoaded, settings>>

\* A message of the transcript and its rendering.
transcript == <<message, applied, shown>>

\* What lies outside the chat page's request handling.
offPage == <<relay, config, transcript, model, others>>

\* The chat page and its request.
page == <<variant, hookOnResponse, input, rawStream, showRaw, status,
          error, reqs, taps, wrappers, winFetch>>

vars == <<page, offPage>>

----------------------------------------------------------------------------
\* String.prototype.trim on a sequence of characters.

RECURSIVE TrimStart(_)
TrimStart(s) ==
    IF s # <<>> /\ Head(s) = " " THEN TrimStart(Tail(s)) ELSE s

RECURSIVE TrimEnd(_)
TrimEnd(s) ==
    IF s # <<>> /\ s[Len(s)] = " " THEN TrimEnd(SubSeq(s, 1, Len(s) - 1)) ELSE s

\* A guard that tests the input as typed.
untrimmed(s) == s

trim(s) == TrimEnd(TrimStart(s))

----------------------------------------------------------------------------
\* new TextDecoder() and decoder.decode(value, {stream: true}): the UTF-8
\* decoder of the platform.  The decoder keeps, between calls, the code point
\* it is assembling, the bytes it still needs and has seen, the range allowed
\* for the next byte, and whether the start of the text (where a byte order
\* mark is dropped) is behind it.  Text is a sequence of code points.

NewDecoder ==
    [cp |-> 0, needed |-> 0, seen |-> 0, lower |-> 128, upper |-> 191,
     bomSeen |-> FALSE]

\* The decoder after a finished or abandoned sequence.
Reset(dec) ==
    [dec EXCEPT !.cp = 0, !.needed = 0, !.seen = 0, !.lower = 128, !.upper = 191]

\* A code point leaves the decoder: the first one is dropped when it is the
\* byte order mark.
Emitted(dec, out, c) ==
    IF ~dec.bomSeen /\ c = ByteOrderMark THEN out ELSE Append(out, c)

\* The decoder is handed a byte while it needs none.
LeadByte(dec, b) ==
    IF b >= 194 /\ b <= 223
    THEN [dec EXCEPT !.needed = 1, !.cp = b - 192]
    ELSE IF b >= 224 /\ b <= 239
    THEN [dec EXCEPT !.needed = 2, !.cp = b - 224,
                     !.lower = IF b = 224 THEN 160 ELSE 128,
                     !.upper = IF b = 237 THEN 159 ELSE 191]
    ELSE [dec EXCEPT !.needed = 3, !.cp = b - 240,
                     !.lower = IF b = 240 THEN 144 ELSE 128,
                     !.upper = IF b = 244 THEN 143 ELSE 191]

RECURSIVE DecodeBytes(_, _, _)
DecodeBytes(dec, bytes, out) ==
    IF bytes = <<>> THEN [text |-> out, dec |-> dec]
    ELSE LET b == Head(bytes) IN
         IF dec.needed = 0
         THEN IF b < 128
              THEN DecodeBytes([dec EXCEPT !.bomSeen = TRUE], Tail(bytes),
                               Emitted(dec, out, b))
              ELSE IF b >= 194 /\ b <= 244
              THEN DecodeBytes(LeadByte(dec, b), Tail(bytes), out)
              ELSE DecodeBytes([dec EXCEPT !.bomSeen = TRUE], Tail(bytes),
                               Emitted(dec, out, Replacement))
         ELSE IF b < dec.lower \/ b > dec.upper
         THEN \* a broken sequence: U+FFFD, and the byte is looked at again
              DecodeBytes([Reset(dec) EXCEPT !.bomSeen = TRUE], bytes,
                          Emitted(dec, out, Replacement))
         ELSE LET c == dec.cp * 64 + (b - 128) IN
              IF dec.seen + 1 = dec.needed
              THEN DecodeBytes([Reset(dec) EXCEPT !.bomSeen = TRUE],
                               Tail(bytes), Emitted(dec, out, c))
              ELSE DecodeBytes([dec EXCEPT !.cp = c, !.seen = @ + 1,
                                           !.lower = 128, !.upper = 191],
                               Tail(bytes), out)

\* decoder.decode(value) without { stream: true }: the chunk is decoded as a
\* whole text, an incomplete sequence at its end gives U+FFFD and nothing is
\* kept for the next call.
decodeWithoutStream(dec, value) ==
    LET d == DecodeBytes(Reset(dec), value, <<>>)
    IN [text |-> IF d.dec.needed # 0 THEN Append(d.text, Replacement)
                 ELSE d.text,
        dec |-> NewDecoder]

\* decoder.decode(value, { stream: true })
decode(dec, value) == DecodeBytes(dec, value, <<>>)

----------------------------------------------------------------------------
\* Messages: their parts and what the page renders for them.

MaxEvents == 3
MaxParts == 2

\* A value that is undefined, null or a string (a sequence of characters).
Undefined == [kind |-> "undefined", text |-> <<>>]
Null == [kind |-> "null", text |-> <<>>]
String(text) == [kind |-> "string", text |-> text]

\* A part: null, or an object with a type and possibly a text.
NullPart == [kind |-> "null", type |-> "undefined", text |-> Undefined]
Part(type, text) == [kind |-> "object", type |-> type, text |-> text]

NoMessage ==
    [role |-> "none", hasParts |-> FALSE, parts |-> <<>>,
     content |-> Undefined]

NotShown == [done |-> FALSE, threw |-> FALSE, text |-> <<>>,
             reasoning |-> <<>>]

\* The deltas of a stream and the events that carry them.
Deltas == {<<>>, <<"a">>, <<"b">>, <<"c">>}

Events == [type : {"reasoning", "text"}, delta : Deltas]

\* A part of another type is opened for every event.
AlwaysOpens(parts, event) == TRUE

\* Whether the event opens a new part: there is none yet, or the last part
\* is of another type.
OpensPart(parts, event) ==
    parts = <<>> \/ parts[Len(parts)].type # event.type

\* applyEvent: the message is created on its first event; a delta of the
\* type of the last part is appended to that part, a delta of another type
\* opens a new part.
applyEvent(event) ==
    /\ Len(applied) < MaxEvents
    /\ LET parts == message.parts
           n == Len(parts)
       IN message' =
            [role |-> "assistant", hasParts |-> TRUE, content |-> Undefined,
             parts |->
               IF OpensPart(parts, event)
               THEN Append(parts, Part(event.type, String(event.delta)))
               ELSE [parts EXCEPT
                       ![n].text = String(@.text \o event.delta)]]
    /\ applied' = Append(applied, event)
    /\ UNCHANGED <<page, model, others, relay, config, shown>>

\* The shapes of message the page may be given to render.
PartShapes ==
    {NullPart,
     Part("text", String(<<"a">>)), Part("text", String(<<"b">>)),
     Part("text", Undefined),
     Part("reasoning", String(<<"r">>)),
     Part("tool-call", Undefined)}

PartLists ==
    UNION {[1..n -> PartShapes] : n \in 0..MaxParts}

Contents == {Undefined, Null, String(<<"h", "i">>)}

MessageShapes ==
    [role : {"assistant"}, hasParts : {TRUE}, parts : PartLists,
     content : Contents]
        \cup [role : {"user"}, hasParts : {FALSE}, parts : {<<>>},
              content : Contents]

\* p.type, which throws on null.
DotType(p) == IF p.kind = "null" THEN "TypeError" ELSE p.type

\* p?.type
OptionalType(p) == IF p.kind = "null" THEN "undefined" ELSE p.type

\* What join('') makes of an element: undefined and null give ''.
Joined(value) == IF value.kind = "string" THEN value.text ELSE <<>>

RECURSIVE Join(_)
Join(texts) ==
    IF texts = <<>> THEN <<>> ELSE Joined(Head(texts)) \o Join(Tail(texts))

IsTextPart(p) == OptionalType(p) = "text"

IsReasoningPart(p) == OptionalType(p) = "reasoning"

Texts(parts) == [i \in DOMAIN parts |-> parts[i].text]

\* Whether evaluating the filters throws.
RenderThrows(m) ==
    m.hasParts /\ \E i \in DOMAIN m.parts :
                     OptionalType(m.parts[i]) = "TypeError"

\* The text of the bubble.
RenderText(m) ==
    IF m.hasParts
    THEN Join(Texts(SelectSeq(m.parts, IsTextPart)))
    ELSE IF m.content.kind \in {"undefined", "null"} THEN <<>>
         ELSE m.content.text

\* The entries of the thinking transcript, one per reasoning part.
RenderReasoning(m) ==
    IF m.hasParts
    THEN Texts(SelectSeq(m.parts, IsReasoningPart))
    ELSE <<>>

\* The page renders the message.
Render ==
    /\ ~shown.done
    /\ shown' = IF RenderThrows(message)
                THEN [NotShown EXCEPT !.done = TRUE, !.threw = TRUE]
                ELSE [done |-> TRUE, threw |-> FALSE,
                      text |-> RenderText(message),
                      reasoning |-> RenderReasoning(message)]
    /\ UNCHANGED <<page, model, others, relay, config, message, applied>>

----------------------------------------------------------------------------
\* The endpoint URL: app/settings/page.tsx and the chat page's copy.

DEFAULT_ENDPOINT == "https://api.hicap.ai/v2/openai/dev"
CustomURL == "https://llm.example/v1"

\* localStorage.getItem returns null when the item was never set.
NoItem == "<null>"

\* What the field of the settings page can hold.
Urls == {"", CustomURL, DEFAULT_ENDPOINT}

\* if (saved): null and the empty string are falsy.
Truthy(saved) == saved # NoItem /\ saved # ""

NewSettings ==
    [endpointUrl |-> DEFAULT_ENDPOINT, savedUrl |-> DEFAULT_ENDPOINT,
     isSaved |-> FALSE, loaded |-> FALSE]

\* The mount effect of the chat page.
LoadChat ==
    /\ ~chatLoaded
    /\ chatLoaded' = TRUE
    /\ endpointUrl' = IF Truthy(storage) THEN storage ELSE endpointUrl
    /\ UNCHANGED <<page, model, others, relay, transcript, storage, settings>>

\* The mount effect of the settings page.
LoadSettings ==
    /\ ~settings.loaded
    /\ settings' = IF Truthy(storage)
                   THEN [settings EXCEPT !.loaded = TRUE,
                                         !.endpointUrl = storage,
                                         !.savedUrl = storage]
                   ELSE [settings EXCEPT !.loaded = TRUE]
    /\ UNCHANGED <<page, model, others, relay, transcript, storage, endpointUrl, chatLoaded>>

\* onChange of the URL field.
EditUrl(url) ==
    /\ settings.loaded
    /\ url # settings.endpointUrl
    /\ settings' = [settings EXCEPT !.endpointUrl = url]
    /\ UNCHANGED <<page, model, others, relay, transcript, storage, endpointUrl, chatLoaded>>

isModified == settings.endpointUrl # settings.savedUrl

isUsingDefault == settings.savedUrl = DEFAULT_ENDPOINT

\* disabled={!isModified} and disabled={isUsingDefault}
SaveEnabled == isModified

ResetEnabled == ~isUsingDefault

\* The Save button, disabled unless the field differs from the saved URL.
handleSave ==
    /\ settings.loaded
    /\ SaveEnabled
    /\ storage' = settings.endpointUrl
    /\ settings' = [settings EXCEPT !.savedUrl = settings.endpointUrl,
                                    !.isSaved = TRUE]
    /\ UNCHANGED <<page, model, others, relay, transcript, endpointUrl, chatLoaded>>

\* The Reset button, disabled while the saved URL is the default.
handleReset ==
    /\ settings.loaded
    /\ ResetEnabled
    /\ storage' = DEFAULT_ENDPOINT
    /\ settings' = [settings EXCEPT !.endpointUrl = DEFAULT_ENDPOINT,
                                    !.savedUrl = DEFAULT_ENDPOINT,
                                    !.isSaved = TRUE]
    /\ UNCHANGED <<page, model, others, relay, transcript, endpointUrl, chatLoaded>>

\* A timer set by Save or Reset fires: setIsSaved(false).
SavedBadgeExpires ==
    /\ settings.isSaved
    /\ settings' = [settings EXCEPT !.isSaved = FALSE]
    /\ UNCHANGED <<page, model, others, relay, transcript, storage, endpointUrl, chatLoaded>>

----------------------------------------------------------------------------
\* app/api/chat/route.ts, the relay between the page and the provider.

DefaultBaseURL == "https://api.hicap.ai/v2/openai/dev"

\* const provider = createOpenAICompatible({ baseURL: ... }): the provider is
\* made once, when the module loads, whatever the request body says.
ProviderBaseURL(body) == DefaultBaseURL

\* An entry of 'messages' as isValidMessage looks at it: what kind of value
\* it is, its role, what its content is, whether it has a parts array, and
\* its id.
Entry(type, role, content, parts, id) ==
    [type |-> type, role |-> role, content |-> content, parts |-> parts,
     id |-> id]

EntryShapes ==
    {Entry("object", "user", "string", "none", 1),
     Entry("object", "assistant", "none", "array", 2),
     Entry("object", "system", "array", "none", 3),
     Entry("object", "tool", "string", "none", 4),
     Entry("object", "user", "object", "none", 5),
     Entry("object", "none", "string", "array", 6),
     Entry("array", "none", "none", "none", 0),
     Entry("string", "none", "none", "none", 0),
     Entry("null", "none", "none", "none", 0)}

\* The 'messages' of a request body: a list of at most two entries, or no
\* array at all (absent, null, a string).
MessageLists ==
    {<<>>} \cup {<<a>> : a \in EntryShapes}
           \cup {<<a, b>> : a \in EntryShapes, b \in EntryShapes}

NonArrays == {"absent", "null", "text"}

MessagesValues ==
    {[kind |-> "array", items |-> list] : list \in MessageLists}
        \cup {[kind |-> k, items |-> <<>>] : k \in NonArrays}

Bodies ==
    [messages : MessagesValues, endpointUrl : {"absent", "", CustomURL}]

NoBody ==
    [messages |-> [kind |-> "absent", items |-> <<>>],
     endpointUrl |-> "absent"]

\* typeof msg
TypeOf(msg) ==
    IF msg.type \in {"object", "array", "null"} THEN "object" ELSE msg.type

\* msg.role throws on null, the one value of type 'object' without
\* properties.
RoleThrows(msg) == TypeOf(msg) = "object" /\ msg.type = "null"

isValidMessage(msg) ==
    /\ TypeOf(msg) = "object"
    /\ msg.role \in {"user", "assistant", "system"}
    /\ msg.content = "string" \/ msg.content = "array" \/ msg.parts = "array"

\* Array.isArray(messages) ? messages : [], after the default of [] for an
\* absent field.
MessageArray(body) ==
    IF body.messages.kind = "array" THEN body.messages.items ELSE <<>>

RECURSIVE FilterThrows(_)
FilterThrows(list) ==
    list # <<>> /\ (RoleThrows(Head(list)) \/ FilterThrows(Tail(list)))

RECURSIVE Filtered(_)
Filtered(list) ==
    IF list = <<>> THEN <<>>
    ELSE IF isValidMessage(Head(list))
         THEN <<Head(list)>> \o Filtered(Tail(list))
         ELSE Filtered(Tail(list))

\* processedMessages.map(({ id, ...rest }) => rest)
WithoutId(msg) == [msg EXCEPT !.id = 0]

StripIds(list) == [i \in DOMAIN list |-> WithoutId(list[i])]

\* try { clearTimeout(timeoutId) } catch {} right after the response is made.
TimerAfterResponse == "cleared"

IdleRelay ==
    [phase |-> "idle", body |-> NoBody, http |-> 0, fail |-> "none",
     forwarded |-> <<>>, baseURL |-> "none", timer |-> "none",
     aborted |-> FALSE, response |-> "none", details |-> "none"]

\* What the libraries POST calls may do: all return, req.json() throws on a
\* body that is not JSON, convertToModelMessages throws, or streamText /
\* toUIMessageStreamResponse throws.
Outcomes == {"returns", "json", "convert", "throws"}

\* The first step of POST that throws, "none" when none does.
FailedStep(body, lib) ==
    IF lib = "json" THEN "json"
    ELSE IF FilterThrows(MessageArray(body)) THEN "filter"
    ELSE IF lib = "convert" THEN "convert"
    ELSE IF lib = "throws" THEN "provider"
    ELSE "none"

\* A handler that reads the body before it enters the try block.
JsonOutsideTry(step) == step # "json"

\* Whether a step is inside the try block of POST: all of them are.
InsideTry(step) == TRUE

\* (error as Error).message
ErrorMessage(step) ==
    CASE step = "json" -> "Unexpected token"
      [] step = "filter" -> "Cannot read properties of null (reading 'role')"
      [] step = "convert" -> "convertToModelMessages failed"
      [] step = "provider" -> "streamText failed"

\* The catch block: status 400 and a JSON body with error and details.  An
\* exception outside the try block would reject the promise POST returns.
Caught(rel, step) ==
    IF InsideTry(step)
    THEN [rel EXCEPT !.phase = "failed", !.http = 400, !.fail = step,
                     !.response = "json", !.details = ErrorMessage(step)]
    ELSE [rel EXCEPT !.phase = "threw", !.fail = step]

\* POST: one request with the given body.  The code between setTimeout and
\* the clearTimeout that follows the creation of the response runs without
\* a break, and the catch block does not clear the timer.
Post(body, lib) ==
    /\ relay.phase = "idle"
    /\ relay' =
          LET step == FailedStep(body, lib)
              parsed == [IdleRelay EXCEPT !.body = body]
              called ==
                  [parsed EXCEPT
                     !.forwarded = StripIds(Filtered(MessageArray(body))),
                     !.baseURL = ProviderBaseURL(body)]
          IN CASE step = "json" -> Caught(IdleRelay, step)
               [] step = "filter" -> Caught(parsed, step)
               [] step = "convert" -> Caught(parsed, step)
               [] step = "provider" ->
                    Caught([called EXCEPT !.timer = "armed"], step)
               [] step = "none" ->
                    [called EXCEPT !.phase = "streaming", !.http = 200,
                                   !.response = "stream",
                                   !.timer = TimerAfterResponse]
    /\ UNCHANGED <<page, model, others, config, transcript>>

\* The provider stream finishes: onFinish clears the timer.
ProviderFinish ==
    /\ relay.phase = "streaming"
    /\ relay' = [relay EXCEPT !.phase = "finished",
                              !.timer = IF @ = "armed" THEN "cleared" ELSE @]
    /\ UNCHANGED <<page, model, others, config, transcript>>

\* The 60 s timer fires: abortController.abort('Request timeout (60s)').
Timeout ==
    /\ relay.timer = "armed"
    /\ relay' = [relay EXCEPT !.timer = "fired", !.aborted = TRUE]
    /\ UNCHANGED <<page, model, others, config, transcript>>

RelayNext ==
    \/ \E body \in Bodies, lib \in Outcomes : Post(body, lib)
    \/ ProviderFinish
    \/ Timeout

----------------------------------------------------------------------------
\* Derived values of a render.

\* A busy flag that is set only once the answer streams.
isLoadingWhileStreaming == status = "streaming"

isLoading == status = "submitted" \/ status = "streaming"

\* What the render shows of the busy flag: the input box is disabled, the
\* "Thinking" row and the spinner of the button are shown, the submit button
\* is disabled.
InputDisabled == isLoading

SpinnerShown == isLoading

SubmitDisabled == isLoading \/ Len(trim(input)) = 0

\* A sendMessage call the hook has not started yet.
\* A request that carries the model the page was mounted with.
NewRequestFirstModel(text) ==
    [text |-> text, viaRaw |-> FALSE, viaHead |-> 0, phase |-> "called",
     fail |-> "none", kind |-> "none", net |-> "none", src |-> <<>>,
     pos |-> 0, got |-> <<>>, endpointUrl |-> endpointUrl,
     model |-> "gemini-2.5-pro"]

NewRequest(text) ==
    [text |-> text, viaRaw |-> FALSE, viaHead |-> 0, phase |-> "called",
     fail |-> "none", kind |-> "none", net |-> "none", src |-> <<>>,
     pos |-> 0, got |-> <<>>, endpointUrl |-> endpointUrl,
     model |-> model]

\* reader = body.getReader() locks the stream to the reader until
\* releaseLock() is called on it; the loop then starts.
NewTap(r, kind, at) ==
    [req |-> r, kind |-> kind, pos |-> at, dec |-> NewDecoder,
     state |-> "reading", reader |-> "held"]

\* A tap that takes its reader from the body the hook reads.
TapSourceBody(kind) == "body"

\* The stream a tap acquires its reader from: the clone, never the body the
\* hook reads.
TapSource(kind) == "clone"

\* An update that puts the chunk in front of the buffer.
Prepended(prev, chunk) == chunk \o prev

\* setRawStream((prev) => prev + chunk)
Appended(prev, chunk) == prev \o chunk

\* A read loop that swallows a rejected read and goes on reading.
RejectedReadIgnored(tap) == tap

\* The read a tap loop awaits rejects: the rejection leaves the while loop
\* (and is logged, swallowed or left unhandled), nothing reads any more.
RejectedRead(tap) == [tap EXCEPT !.state = "failed"]

\* The layers of window.fetch a call entered at head passes through, the
\* innermost first.
RECURSIVE Chain(_)
Chain(head) ==
    IF head = 0 THEN <<>> ELSE Append(Chain(wrappers[head].orig), head)

\* No sendMessage call is waiting for the hook to start it: the microtasks of
\* the last user event have run, and the browser can run the next task.
Quiet == \A r \in DOMAIN reqs : reqs[r].phase # "called"

\* The message list of the hook: per started request the user message and
\* the assistant message assembled so far.
Messages ==
    [r \in {q \in DOMAIN reqs : reqs[q].phase # "called"} |->
        [user |-> reqs[r].text, assistant |-> reqs[r].got]]

----------------------------------------------------------------------------
PageInit ==
    /\ variant \in Variants
    /\ hookOnResponse \in (IF variant = "oneshot" THEN BOOLEAN ELSE {FALSE})
    /\ input = <<>>
    /\ rawStream = <<>>
    /\ showRaw = FALSE
    /\ status = "idle"
    /\ error = "none"
    /\ reqs = <<>>
    /\ taps = <<>>
    /\ wrappers = <<>>
    /\ winFetch = 0

\* The chat page with its request handling, mounted with nothing persisted.
Init ==
    /\ PageInit
    /\ relay = IdleRelay
    /\ storage = NoItem
    /\ endpointUrl = DEFAULT_ENDPOINT
    /\ chatLoaded = TRUE
    /\ settings = NewSettings
    /\ message = NoMessage
    /\ applied = <<>>
    /\ shown = NotShown
    /\ model = "gemini-2.5-pro"
    /\ others = 0

----------------------------------------------------------------------------
\* The user interface.

\* onChange of the input box; the box is disabled while the page is busy.
TypeInput(s) ==
    /\ ~isLoading
    /\ Len(reqs) < MaxSubmits
    /\ s # input
    /\ input' = s
    /\ UNCHANGED <<variant, hookOnResponse, rawStream, showRaw, status,
                   error, reqs, taps, wrappers, winFetch>>
    /\ UNCHANGED offPage

\* onValueChange of the model select.
SelectModel(m) ==
    /\ m # model
    /\ model' = m
    /\ UNCHANGED <<page, relay, config, transcript, others>>

\* onCheckedChange of the "Raw stream" checkbox.  In the effect page the
\* [showRaw] effect then restores window.fetch and wraps it again, so the
\* installed wrapper always holds the current showRaw.  A run follows the
\* checkbox as long as a request can still start.
ToggleShowRaw ==
    /\ Len(reqs) < MaxSubmits \/ ~Quiet
    /\ showRaw' = ~showRaw
    /\ UNCHANGED <<variant, hookOnResponse, input, rawStream, status,
                   error, reqs, taps, wrappers, winFetch>>
    /\ UNCHANGED offPage

\* The Clear button, rendered with showRaw and enabled on a non-empty buffer.
ClearRaw ==
    /\ showRaw
    /\ rawStream # <<>>
    /\ rawStream' = <<>>
    /\ UNCHANGED <<variant, hookOnResponse, input, showRaw, status,
                   error, reqs, taps, wrappers, winFetch>>
    /\ UNCHANGED offPage

\* interceptNextChatResponse: a new one-shot layer on top of window.fetch.
InstalledWrappers ==
    IF variant = "oneshot"
    THEN Append(wrappers, [orig |-> winFetch, done |-> FALSE, calls |-> 0])
    ELSE wrappers

InstalledFetch == IF variant = "oneshot" THEN Len(wrappers) + 1 ELSE winFetch

\* A guard that looks at the input only.
SubmitAcceptedAnyStatus == trim(input) # <<>>

\* A guard that also refuses while an error is shown.
SubmitAcceptedWithoutError ==
    trim(input) # <<>> /\ ~isLoading /\ error = "none"

\* The guard of handleSubmit and of onSubmit.
SubmitAccepted == trim(input) # <<>> /\ ~isLoading

\* handleSubmit (effect page) and onSubmit (one-shot page) up to the
\* sendMessage call, which returns a promise.
Submit ==
    IF ~SubmitAccepted THEN UNCHANGED vars
    ELSE /\ Len(reqs) < MaxSubmits
         /\ input' = <<>>
         /\ rawStream' = <<>>
         /\ showRaw' = IF variant = "oneshot" /\ showRaw = FALSE
                       THEN TRUE ELSE showRaw
         /\ wrappers' = InstalledWrappers
         /\ winFetch' = InstalledFetch
         /\ reqs' = Append(reqs, NewRequest(trim(input)))
         /\ UNCHANGED <<variant, hookOnResponse, status, error, taps>>
         /\ UNCHANGED offPage

\* The hook starts the oldest sendMessage call not started yet: it records
\* the user message, enters 'submitted', drops the previous error and calls
\* window.fetch, through the wrappers installed at that moment.
HookStart(r) ==
    /\ reqs[r].phase = "called"
    /\ \A q \in 1..(r - 1) : reqs[q].phase # "called"
    /\ reqs' = [reqs EXCEPT ![r].phase = "fetching",
                            ![r].viaRaw = showRaw,
                            ![r].viaHead = winFetch]
    /\ status' = "submitted"
    /\ error' = "none"
    /\ UNCHANGED <<variant, hookOnResponse, input, rawStream, showRaw,
                   taps, wrappers, winFetch>>
    /\ UNCHANGED offPage

----------------------------------------------------------------------------
\* The fetch wrappers.

\* The one-shot layers of chain, innermost first, run on the response of
\* request r: a layer that is not done marks itself done, taps a clone (the
\* tap callback starts a read loop unless the body is null; a throwing clone
\* is caught) and restores the window.fetch it replaced.
\* url.includes('/api/chat')
ChatUrl == "/api/chat"
OtherUrl == "/settings"

IsChatUrl(url) == url = ChatUrl

\* A layer that never counts as spent.
NeverSpent(w, acc) == FALSE

\* if (!done): whether layer w has had its response.
Spent(w, acc) == acc.wrappers[w].done

\* calls counts the invocations of the tap callback: clone() of a used body
\* throws before the callback is called.
RECURSIVE RunOneShot(_, _, _, _, _)
RunOneShot(chain, r, kind, url, acc) ==
    IF chain = <<>> THEN acc
    ELSE LET w == Head(chain) IN
         IF Spent(w, acc) \/ ~IsChatUrl(url)
         THEN RunOneShot(Tail(chain), r, kind, url, acc)
         ELSE RunOneShot(Tail(chain), r, kind, url,
                [wrappers |-> [acc.wrappers EXCEPT
                                 ![w].done = TRUE,
                                 ![w].calls = IF kind = "used" THEN @
                                              ELSE @ + 1],
                 taps |-> IF kind = "stream"
                          THEN Append(acc.taps, NewTap(r, "oneshot", 0))
                          ELSE acc.taps,
                 winFetch |-> acc.wrappers[w].orig])

\* Whether the useEffect wrapper of request r throws: response.clone() is not
\* inside a try.
EffectWrapperThrows(r, kind) == reqs[r].viaRaw /\ kind = "used"

NetAfter(kind) == IF kind = "stream" THEN "open" ELSE "closed"

\* chatOptions.onResponse on the response of request r, for a hook that
\* calls it: the buffer is emptied, then a clone is tapped unless clone()
\* throws or the body is null.  tp are the taps started so far.
OnResponseTaps(r, kind, tp) ==
    IF hookOnResponse /\ kind = "stream"
    THEN Append(tp, NewTap(r, "onResponse", 0)) ELSE tp

\* originalFetch resolves for request r with a response of the given kind, the
\* wrappers the call went through run, and the hook receives what they return
\* and, where it supports onResponse, calls it before it reads the body.
FetchResolve(r, kind) ==
    /\ Quiet
    /\ reqs[r].phase = "fetching"
    /\ IF variant = "effect"
       THEN /\ UNCHANGED <<wrappers, winFetch>>
            /\ IF EffectWrapperThrows(r, kind)
               THEN /\ reqs' = [reqs EXCEPT ![r].phase = "error",
                                            ![r].fail = "wrapper",
                                            ![r].kind = kind,
                                            ![r].net = NetAfter(kind)]
                    /\ status' = "idle"
                    /\ error' = "transport"
                    /\ UNCHANGED <<rawStream, taps>>
               ELSE /\ reqs' = [reqs EXCEPT ![r].phase = "reading",
                                            ![r].kind = kind,
                                            ![r].net = NetAfter(kind)]
                    /\ IF reqs[r].viaRaw /\ kind = "stream"
                       THEN /\ rawStream' = <<>>
                            /\ taps' = Append(taps, NewTap(r, "effect", 0))
                       ELSE UNCHANGED <<rawStream, taps>>
                    /\ UNCHANGED <<status, error>>
       ELSE LET run == RunOneShot(Chain(reqs[r].viaHead), r, kind, ChatUrl,
                                  [wrappers |-> wrappers, taps |-> taps,
                                   winFetch |-> winFetch])
            IN /\ wrappers' = run.wrappers
               /\ winFetch' = run.winFetch
               /\ taps' = OnResponseTaps(r, kind, run.taps)
               /\ rawStream' = IF hookOnResponse THEN <<>> ELSE rawStream
               /\ reqs' = [reqs EXCEPT ![r].phase = "reading",
                                       ![r].kind = kind,
                                       ![r].net = NetAfter(kind)]
               /\ UNCHANGED <<status, error>>
    /\ UNCHANGED <<variant, hookOnResponse, input, showRaw>>
    /\ UNCHANGED offPage

\* A fetch to another URL (the framework loading a route) resolves through
\* the layers window.fetch has: the layers return the response as it is.
\* The effect wrapper tests the URL before it clones.
OtherFetch ==
    /\ Quiet
    /\ others < MaxOthers
    /\ others' = others + 1
    /\ LET run == RunOneShot(Chain(winFetch), 0, "stream", OtherUrl,
                             [wrappers |-> wrappers, taps |-> taps,
                              winFetch |-> winFetch])
       IN /\ wrappers' = run.wrappers
          /\ taps' = run.taps
          /\ winFetch' = run.winFetch
    /\ UNCHANGED <<variant, hookOnResponse, input, rawStream, showRaw,
                   status, error, reqs>>
    /\ UNCHANGED <<relay, config, transcript, model>>

----------------------------------------------------------------------------
\* The network.

\* The transport fails before any response: the fetch call of request r rejects.
FetchReject(r) ==
    /\ Quiet
    /\ reqs[r].phase = "fetching"
    /\ reqs' = [reqs EXCEPT ![r].phase = "error", ![r].fail = "network"]
    /\ status' = "idle"
    /\ error' = "transport"
    /\ UNCHANGED <<variant, hookOnResponse, input, rawStream, showRaw,
                   taps, wrappers, winFetch>>
    /\ UNCHANGED offPage

\* The chunks delivered so far, over the first n requests.
RECURSIVE Delivered(_)
Delivered(n) == IF n = 0 THEN 0 ELSE Delivered(n - 1) + Len(reqs[n].src)

\* One more chunk of the body of request r arrives.
NetChunk(r) ==
    /\ Quiet
    /\ reqs[r].net = "open"
    /\ Delivered(Len(reqs)) < MaxChunks
    /\ reqs' = [reqs EXCEPT ![r].src = Append(@, WireChunk(Len(@) + 1))]
    /\ UNCHANGED <<variant, hookOnResponse, input, rawStream, showRaw,
                   status, error, taps, wrappers, winFetch>>
    /\ UNCHANGED offPage

\* The body of request r ends.
NetClose(r) ==
    /\ Quiet
    /\ reqs[r].net = "open"
    /\ reqs' = [reqs EXCEPT ![r].net = "closed"]
    /\ UNCHANGED <<variant, hookOnResponse, input, rawStream, showRaw,
                   status, error, taps, wrappers, winFetch>>
    /\ UNCHANGED offPage

\* The transport of request r is cut (connection lost, request aborted): the
\* body is errored, what its branches have queued is discarded and the read
\* every reader of it is waiting on rejects.  The tap loops end (the
\* rejection is logged or left unhandled); the hook records the error.
NetError(r) ==
    /\ Quiet
    /\ reqs[r].net = "open"
    /\ taps' = [t \in DOMAIN taps |->
                  IF taps[t].req = r /\ taps[t].state = "reading"
                  THEN RejectedRead(taps[t]) ELSE taps[t]]
    /\ reqs' = [reqs EXCEPT ![r].net = "errored", ![r].phase = "error",
                            ![r].fail = "stream"]
    /\ status' = "idle"
    /\ error' = "transport"
    /\ UNCHANGED <<variant, hookOnResponse, input, rawStream, showRaw,
                   wrappers, winFetch>>
    /\ UNCHANGED offPage

----------------------------------------------------------------------------
\* The readers.

\* The hook reads the body of request r: a chunk extends the assistant
\* message and makes the status 'streaming', the end of the stream returns the
\* status to idle, a failed read records the error.  The hook writes status
\* and error as one pair: only the error transition records an error, every
\* other transition leaves none recorded.
HookRead(r) ==
    /\ Quiet
    /\ reqs[r].phase = "reading"
    /\ IF reqs[r].kind # "stream"
       THEN /\ reqs' = [reqs EXCEPT ![r].phase = "error", ![r].fail = "nobody"]
            /\ status' = "idle"
            /\ error' = "transport"
       ELSE IF reqs[r].pos < Len(reqs[r].src)
       THEN /\ reqs' = [reqs EXCEPT ![r].pos = @ + 1,
                                    ![r].got = Append(@, reqs[r].src[reqs[r].pos + 1])]
            /\ status' = "streaming"
            /\ error' = "none"
       ELSE /\ reqs[r].net = "closed"
            /\ reqs' = [reqs EXCEPT ![r].phase = "done"]
            /\ status' = "idle"
            /\ error' = "none"
    /\ UNCHANGED <<variant, hookOnResponse, input, rawStream, showRaw,
                   taps, wrappers, winFetch>>
    /\ UNCHANGED offPage

\* Where tap t stands in the stream it reads.
TapPos(t) ==
    IF TapSource(taps[t].kind) = "clone" THEN taps[t].pos
    ELSE reqs[taps[t].req].pos

\* One turn of the read loop of tap t: a chunk is decoded and appended to
\* rawStream, done ends the loop (NetError is the turn whose read rejects).
TapRead(t) ==
    LET r == taps[t].req
        at == TapPos(t)
    IN
    /\ Quiet
    /\ taps[t].state = "reading"
    /\ IF at < Len(reqs[r].src)
       THEN LET d == decode(taps[t].dec, reqs[r].src[at + 1]) IN
            /\ rawStream' = Appended(rawStream, d.text)
            /\ taps' = [taps EXCEPT ![t].pos = at + 1, ![t].dec = d.dec]
            /\ reqs' = IF TapSource(taps[t].kind) = "clone" THEN reqs
                       ELSE [reqs EXCEPT ![r].pos = at + 1]
       ELSE /\ reqs[r].net = "closed"
            /\ taps' = [taps EXCEPT ![t].state = "done"]
            /\ UNCHANGED <<rawStream, reqs>>
    /\ UNCHANGED <<variant, hookOnResponse, input, showRaw, status,
                   error, wrappers, winFetch>>
    /\ UNCHANGED offPage

----------------------------------------------------------------------------
Next ==
    \/ \E s \in Inputs : TypeInput(s)
    \/ ToggleShowRaw
    \/ ClearRaw
    \/ Submit
    \/ \E r \in DOMAIN reqs : HookStart(r)
    \/ \E r \in DOMAIN reqs, kind \in Kinds : FetchResolve(r, kind)
    \/ \E r \in DOMAIN reqs : FetchReject(r)
    \/ \E r \in DOMAIN reqs : NetChunk(r)
    \/ \E r \in DOMAIN reqs : NetClose(r)
    \/ \E r \in DOMAIN reqs : NetError(r)
    \/ \E r \in DOMAIN reqs : HookRead(r)
    \/ \E t \in DOMAIN taps : TapRead(t)

Spec == Init /\ [][Next]_vars

\* The runs in which the user never presses Clear.
NextNoClear ==
    \/ \E s \in Inputs : TypeInput(s)
    \/ ToggleShowRaw
    \/ Submit
    \/ \E r \in DOMAIN reqs : HookStart(r)
    \/ \E r \in DOMAIN reqs, kind \in Kinds : FetchResolve(r, kind)
    \/ \E r \in DOMAIN reqs : FetchReject(r)
    \/ \E r \in DOMAIN reqs : NetChunk(r)
    \/ \E r \in DOMAIN reqs : NetClose(r)
    \/ \E r \in DOMAIN reqs : NetError(r)
    \/ \E r \in DOMAIN reqs : HookRead(r)
    \/ \E t \in DOMAIN taps : TapRead(t)

SpecNoClear == Init /\ [][NextNoClear]_vars

\* The steps that are bound to happen once they can: the hook starts a call,
\* a fetch settles, and the readers take what is there for them.  Whether
\* and when a chunk, the end of the body or a failure of the transport comes
\* is up to the backend and the network; the page sets no timer and offers no
\* stop.
Fairness ==
    /\ WF_vars(\E r \in DOMAIN reqs : HookStart(r))
    /\ WF_vars(\E r \in DOMAIN reqs :
                  FetchReject(r) \/ \E kind \in Kinds : FetchResolve(r, kind))
    /\ WF_vars(\E r \in DOMAIN reqs : HookRead(r))
    /\ WF_vars(\E t \in DOMAIN taps : TapRead(t))

SpecFair == Init /\ [][Next]_vars /\ Fairness

\* The page with the fetches of others passing through window.fetch.
NextWithOthers == Next \/ OtherFetch

SpecOthers == Init /\ [][NextWithOthers]_vars

\* The composing of a message: the input box, the model select and the
\* submit, up to the start of the request.
ComposeNext ==
    \/ \E s \in Inputs : TypeInput(s)
    \/ \E m \in SelectableModel : SelectModel(m)
    \/ Submit
    \/ \E r \in DOMAIN reqs : HookStart(r)

SpecCompose == Init /\ [][ComposeNext]_vars

\* The relay on its own.
SpecRelay == Init /\ [][RelayNext]_vars

\* Both pages are mounted over whatever an earlier session left in
\* localStorage; the chat page takes submits, the settings page edits.
SettingsInit ==
    /\ PageInit
    /\ relay = IdleRelay
    /\ storage \in {NoItem} \cup Urls
    /\ endpointUrl = DEFAULT_ENDPOINT
    /\ chatLoaded = FALSE
    /\ settings = NewSettings
    /\ message = NoMessage
    /\ applied = <<>>
    /\ shown = NotShown
    /\ model = "gemini-2.5-pro"
    /\ others = 0

\* The browser loads the application anew: both pages start from their
\* initial state, window.fetch is the browser's own, localStorage is kept.
Restart ==
    /\ input' = <<>>
    /\ rawStream' = <<>>
    /\ showRaw' = FALSE
    /\ status' = "idle"
    /\ error' = "none"
    /\ reqs' = <<>>
    /\ taps' = <<>>
    /\ wrappers' = <<>>
    /\ winFetch' = 0
    /\ endpointUrl' = DEFAULT_ENDPOINT
    /\ chatLoaded' = FALSE
    /\ settings' = NewSettings
    /\ model' = "gemini-2.5-pro"
    /\ UNCHANGED <<variant, hookOnResponse, relay, storage, transcript,
                   others>>

SettingsNext ==
    \/ Restart
    \/ LoadChat
    \/ LoadSettings
    \/ \E url \in Urls : EditUrl(url)
    \/ handleSave
    \/ handleReset
    \/ SavedBadgeExpires
    \/ \E s \in Inputs : TypeInput(s)
    \/ chatLoaded /\ Submit

SpecSettings == SettingsInit /\ [][SettingsNext]_vars

\* The first session on a browser that has nothing persisted, and the
\* sessions that follow it.
RoundTripInit ==
    /\ SettingsInit
    /\ storage = NoItem

SpecRoundTrip == RoundTripInit /\ [][SettingsNext]_vars

\* Texts with characters of one to four bytes, as bytes and as code points.
MaxPieces == 3

Samples ==
    {[bytes |-> <<97, 195, 169, 226, 130, 172, 240, 159, 152, 128>>,
      chars |-> <<97, 233, 8364, 128512>>],
     [bytes |-> <<239, 187, 191, 195, 169>>,
      chars |-> <<233>>]}

\* The places a body of n bytes can be cut to arrive in at most MaxPieces
\* chunks.
Cuts(n) == {c \in SUBSET (1..(n - 1)) : Cardinality(c) < MaxPieces}

RECURSIVE SplitAt(_, _, _)
SplitAt(bytes, cuts, from) ==
    IF from = Len(bytes) THEN <<>>
    ELSE LET ends == {c \in cuts \cup {Len(bytes)} : c > from}
             next == CHOOSE c \in ends : \A d \in ends : c <= d
         IN <<SubSeq(bytes, from + 1, next)>> \o SplitAt(bytes, cuts, next)

\* A response whose body has arrived whole, in some chunks, tapped by the
\* interceptor of the effect; nothing of it has been read yet.
DecodeInit ==
    /\ relay = IdleRelay
    /\ storage = NoItem
    /\ endpointUrl = DEFAULT_ENDPOINT
    /\ chatLoaded = TRUE
    /\ settings = NewSettings
    /\ message = NoMessage
    /\ applied = <<>>
    /\ shown = NotShown
    /\ model = "gemini-2.5-pro"
    /\ others = 0
    /\ variant = "effect"
    /\ hookOnResponse = FALSE
    /\ input = <<>>
    /\ rawStream = <<>>
    /\ showRaw = TRUE
    /\ status = "submitted"
    /\ error = "none"
    /\ \E t \in Samples : \E cuts \in Cuts(Len(t.bytes)) :
          reqs = <<[NewRequest(<<"h">>) EXCEPT
                      !.viaRaw = TRUE, !.phase = "reading",
                      !.kind = "stream", !.net = "closed",
                      !.src = SplitAt(t.bytes, cuts, 0)]>>
    /\ taps = <<NewTap(1, "effect", 0)>>
    /\ wrappers = <<>>
    /\ winFetch = 0

DecodeNext ==
    \/ \E r \in DOMAIN reqs : HookRead(r)
    \/ \E t \in DOMAIN taps : TapRead(t)

SpecDecode == DecodeInit /\ [][DecodeNext]_vars

\* The assembly of one message from the events of a stream.
AssembleNext == \E event \in Events : applyEvent(event)

SpecAssemble == Init /\ [][AssembleNext]_vars

\* The rendering of one message of any shape.
RenderInit ==
    /\ PageInit
    /\ relay = IdleRelay
    /\ storage = NoItem
    /\ endpointUrl = DEFAULT_ENDPOINT
    /\ chatLoaded = TRUE
    /\ settings = NewSettings
    /\ message \in MessageShapes
    /\ applied = <<>>
    /\ shown = NotShown
    /\ model = "gemini-2.5-pro"
    /\ others = 0

SpecRender == RenderInit /\ [][Render]_vars

----------------------------------------------------------------------------
\* Vocabulary of the properties.

Blank(s) == \A i \in DOMAIN s : s[i] = " "

IsPrefix(a, b) == Len(a) <= Len(b) /\ a = SubSeq(b, 1, Len(a))

InFlight(r) == reqs[r].phase \in {"called", "fetching", "reading"}

ActiveTaps == {t \in DOMAIN taps : taps[t].state = "reading"}

RECURSIVE Flatten(_)
Flatten(chunks) ==
    IF chunks = <<>> THEN <<>> ELSE Head(chunks) \o Flatten(Tail(chunks))

\* The text of a whole body, decoded in one piece.
WholeText(chunks) == decode(NewDecoder, Flatten(chunks)).text

----------------------------------------------------------------------------
\* C1: a submit handled while the status is 'submitted' or 'streaming' does
\* nothing: no sendMessage call, no interceptor, and the message list, the
\* input and the raw buffer stay as they are.
C1_BusySubmitIsNoOp ==
    [][(Submit /\ isLoading) =>
         (UNCHANGED vars /\ Messages' = Messages)]_vars

\* The page is busy with a sendable text in the box, so the status is the
\* only reason to refuse the submit.
C1_Witness == isLoading /\ ~Blank(input)

\* C2: at most one request is in flight (called and not yet at stream end or
\* error) at any time.
C2_AtMostOneInFlight ==
    Cardinality({r \in DOMAIN reqs : InFlight(r)}) <= 1

\* C3: in a run without Clear, when a tap sees the end of its stream the raw
\* buffer is the decoded text of all chunks of that response, in order, each
\* once.
C3_BufferIsResponseText ==
    [][\A t \in DOMAIN taps :
          (taps[t].state = "reading" /\ taps'[t].state = "done") =>
              rawStream' = WholeText(reqs[taps[t].req].src)]_vars

\* C4: at most one tap read loop is active at any moment.
C4_AtMostOneActiveTap == Cardinality(ActiveTaps) <= 1

\* C5: the hook receives the chunks of a response in order and, at the end of
\* the stream, all of them, whatever the taps of that response do.
C5_PrimaryReceivesEveryChunk ==
    \A r \in DOMAIN reqs :
        /\ reqs[r].got = SubSeq(reqs[r].src, 1, reqs[r].pos)
        /\ reqs[r].phase = "done" => reqs[r].got = reqs[r].src

\* The hook has read a two-chunk response to its end while a tap of the same
\* response has not read it all (still reading, or stopped).
C5_Witness ==
    \E t \in DOMAIN taps :
        /\ reqs[taps[t].req].phase = "done"
        /\ Len(reqs[taps[t].req].src) >= 2
        /\ taps[t].pos < Len(reqs[taps[t].req].src)

\* C6: no failure of a tap makes the wrapped fetch call reject.
C6_WrappedFetchNeverRejects ==
    \A r \in DOMAIN reqs : reqs[r].fail # "wrapper"

\* No tap of the newest request has appended a chunk of its response yet.
NewestUntapped ==
    /\ reqs # <<>>
    /\ \A t \in DOMAIN taps : taps[t].req = Len(reqs) => taps[t].pos = 0

\* C7: the raw buffer is emptied by every accepted submit and stays empty
\* until the first chunk of the new response is appended; it changes only
\* by being emptied or by growing at its end, and is left alone by the
\* hook's assembly of the message.
C7_AppendOnlyBetweenResets ==
    /\ [](NewestUntapped => rawStream = <<>>)
    /\ [][/\ rawStream' = <<>> \/ IsPrefix(rawStream, rawStream')
          /\ (Submit /\ SubmitAccepted) => rawStream' = <<>>
          /\ (\E r \in DOMAIN reqs : HookRead(r)) => rawStream' = rawStream
         ]_vars

\* C8: once a new request is accepted, no tap of an earlier request appends
\* to the raw buffer.
C8_OnlyCurrentRequestAppends ==
    [][\A t \in DOMAIN taps :
          taps'[t].pos # taps[t].pos => taps[t].req = Len(reqs)]_vars

\* Once the transport of a request is cut, its tap loops have ended and
\* read nothing more, and the assistant message keeps what it had.
CutStopsAppends ==
    \A r \in DOMAIN reqs :
        reqs'[r].net = "errored" =>
            /\ reqs'[r].got = reqs[r].got
            /\ \A t \in DOMAIN taps :
                  taps[t].req = r =>
                      /\ taps'[t].state # "reading"
                      /\ taps'[t].pos = taps[t].pos

\* C9: once the in-flight request is cancelled, its tap loops have ended
\* and released their readers, no later chunk is appended to the raw buffer
\* or to the assistant message, and the partial message keeps what it had.
C9_CancelStopsAppends ==
    [][/\ CutStopsAppends
       /\ \A t \in DOMAIN taps' :
             reqs'[taps'[t].req].net = "errored" =>
                 taps'[t].reader = "released"]_vars

\* C10: a submit with an empty or whitespace-only input does nothing, in
\* every status.
C10_BlankSubmitIsNoOp ==
    [][(Submit /\ Blank(input)) =>
         (UNCHANGED vars /\ Messages' = Messages)]_vars

\* A whitespace-only text in the box of an idle page: only the trimming
\* refuses this submit.
C10_Witness == input # <<>> /\ Blank(input) /\ ~isLoading

\* C11: the busy flag is set exactly in the statuses 'submitted' and
\* 'streaming'; the input box is disabled and the spinner shown exactly when
\* it is set, and the submit button is disabled exactly when it is set or the
\* trimmed input is empty.
C11_BusyFlag ==
    /\ isLoading <=> status \in {"submitted", "streaming"}
    /\ InputDisabled <=> status \in {"submitted", "streaming"}
    /\ SpinnerShown <=> status \in {"submitted", "streaming"}
    /\ SubmitDisabled <=> (status \in {"submitted", "streaming"} \/ Blank(input))

\* The request is sent and no chunk has come yet, with a sendable text in the
\* box: the button is disabled by the busy flag alone.
C11_Witness == status = "submitted" /\ ~Blank(input)

\* The edges of the request lifecycle.  A request leaves 'submitted' for idle
\* on an error, or at the end of a stream that brought no chunk.
LifecycleEdges ==
    {<<"idle", "submitted">>, <<"submitted", "streaming">>,
     <<"streaming", "idle">>, <<"submitted", "idle">>,
     <<"submitted", "stopped">>, <<"streaming", "stopped">>,
     <<"stopped", "idle">>}

\* C12: the status changes only along the lifecycle edges: idle to submitted,
\* submitted to streaming, submitted or streaming to idle (stream end, error),
\* and through stopped on a stop.
C12_OnlyLifecycleEdges ==
    [][status' # status => <<status, status'>> \in LifecycleEdges]_vars

\* C13: every request leaves the busy states: whenever the status is
\* 'submitted' or 'streaming' it is eventually neither.
C13_BusyEventuallyEnds == isLoading ~> ~isLoading

\* C14: as long as the provider stream of a call has not finished, the timer
\* that aborts the call is armed.
C14_TimerArmedWhileStreaming ==
    relay.phase = "streaming" => relay.timer = "armed"

\* The entries the provider is to get: those with one of the three roles that
\* carry content or parts.
Forwardable(msg) ==
    /\ msg.type = "object"
    /\ msg.role \in {"user", "assistant", "system"}
    /\ msg.content \in {"string", "array"} \/ msg.parts = "array"

\* C15: whatever the entries of 'messages' are, the request does not fail
\* over them and the provider gets exactly the forwardable ones, in order.
C15_ForwardsExactlyTheValid ==
    (relay.phase # "idle" /\ relay.fail \in {"none", "filter"}) =>
        /\ relay.fail = "none"
        /\ relay.forwarded =
              StripIds(SelectSeq(MessageArray(relay.body), Forwardable))

\* C16: the provider is called at the endpointUrl of the request body when
\* the body gives one, and at the default endpoint otherwise.
C16_BaseURLFollowsBody ==
    relay.baseURL # "none" =>
        relay.baseURL = IF relay.body.endpointUrl \in {"absent", ""}
                        THEN DefaultBaseURL ELSE relay.body.endpointUrl

\* What a page is to hold after its startup load.
PersistedOrDefault == IF storage = NoItem THEN DEFAULT_ENDPOINT ELSE storage

\* C17: the startup load leaves the chat page and the settings page with
\* the persisted endpoint URL, or the default when nothing is persisted, and
\* a submit made after the load sends the chat page's value as endpointUrl.
C17_LoadTakesPersistedValue ==
    [][/\ (~chatLoaded /\ chatLoaded') =>
            endpointUrl' = PersistedOrDefault
       /\ (~settings.loaded /\ settings'.loaded) =>
            /\ settings'.endpointUrl = PersistedOrDefault
            /\ settings'.savedUrl = PersistedOrDefault
       /\ (chatLoaded /\ Len(reqs') > Len(reqs)) =>
            reqs'[Len(reqs')].endpointUrl = endpointUrl]_vars

\* The parts a sequence of events is to give: one part per run of events of
\* one type, holding the deltas of the run in order.
RECURSIVE Runs(_)
Runs(events) ==
    IF events = <<>> THEN <<>>
    ELSE LET n == Len(events)
             before == Runs(SubSeq(events, 1, n - 1))
             last == events[n]
         IN IF n > 1 /\ events[n - 1].type = last.type
            THEN [before EXCEPT ![Len(before)].text =
                                   String(@.text \o last.delta)]
            ELSE Append(before, Part(last.type, String(last.delta)))

PartSwitchEvents ==
    <<[type |-> "reasoning", delta |-> <<"a">>],
      [type |-> "reasoning", delta |-> <<"b">>],
      [type |-> "text", delta |-> <<"c">>]>>

\* C18: the parts of a message are the runs of its events: consecutive
\* deltas of one type are concatenated in order into one part, a change of
\* type opens a new part; reasoning 'a', reasoning 'b', text 'c' give the
\* two parts reasoning 'ab' and text 'c'.
C18_PartsAreRunsOfEvents ==
    /\ message.parts = Runs(applied)
    /\ applied = PartSwitchEvents =>
          message.parts = <<Part("reasoning", String(<<"a", "b">>)),
                            Part("text", String(<<"c">>))>>

C18_Witness ==
    /\ applied = PartSwitchEvents
    /\ Len(message.parts) = 2

\* The text of the parts of type text, in order.
RECURSIVE TextOfParts(_)
TextOfParts(parts) ==
    IF parts = <<>> THEN <<>>
    ELSE LET p == Head(parts)
         IN (IF p.kind = "object" /\ p.type = "text" /\ p.text.kind = "string"
             THEN p.text.text ELSE <<>>) \o TextOfParts(Tail(parts))

\* C19: rendering does not throw; a message with a parts array shows the
\* concatenation of its text parts, a message without one shows its content,
\* and nothing when the content is absent.
C19_RenderByShape ==
    shown.done =>
        /\ ~shown.threw
        /\ message.hasParts => shown.text = TextOfParts(message.parts)
        /\ (~message.hasParts /\ message.content.kind = "string") =>
              shown.text = message.content.text
        /\ (~message.hasParts /\ message.content.kind # "string") =>
              shown.text = <<>>

C19_Witness ==
    /\ shown.done
    /\ message.hasParts
    /\ Len(message.parts) = 2
    /\ message.parts[1].kind = "null"
    /\ message.parts[2] = Part("text", String(<<"a">>))
    /\ shown.text = <<"a">>

\* The characters of the sample a body carries.
CharsOf(chunks) ==
    (CHOOSE t \in Samples : t.bytes = Flatten(chunks)).chars

\* C20: whatever the chunk boundaries, the raw buffer holds the text of the
\* chunks read, decoded as if it had come in one piece, without a
\* replacement character, and the characters of the body once the tap has
\* read it all.
C20_SplitCharactersDecodeWhole ==
    \A t \in DOMAIN taps :
        LET src == reqs[taps[t].req].src
        IN /\ rawStream = WholeText(SubSeq(src, 1, taps[t].pos))
           /\ \A i \in DOMAIN rawStream : rawStream[i] # Replacement
           /\ IsPrefix(rawStream, CharsOf(src))
           /\ taps[t].state = "done" => rawStream = CharsOf(src)

C20_Witness ==
    /\ Len(taps) = 1
    /\ taps[1].state = "done"
    /\ reqs[1].src = <<<<97, 195>>, <<169, 226>>,
                       <<130, 172, 240, 159, 152, 128>>>>
    /\ rawStream = <<97, 233, 8364, 128512>>

\* C21: while an error is recorded the page is not busy, the input is
\* enabled, and a submit with non-blank input is accepted and issues a new
\* request.
C21_ErrorLeavesPageReady ==
    /\ [](error # "none" =>
            /\ ~isLoading
            /\ ~InputDisabled
            /\ ~Blank(input) => SubmitAccepted)
    /\ [][(error # "none" /\ Submit /\ ~Blank(input)) =>
            Len(reqs') = Len(reqs) + 1]_vars

\* The retry was accepted while the error of the failed request was still
\* recorded: the new call waits for the hook, which will drop the error.
C21_Witness ==
    /\ error # "none"
    /\ Len(reqs) = 2
    /\ reqs[1].phase = "error"
    /\ reqs[2].phase = "called"

Spaces(n) == [i \in 1..n |-> " "]

\* t is s without the white space at its ends.
IsTrimOf(t, s) ==
    /\ t = <<>> \/ (t[1] # " " /\ t[Len(t)] # " ")
    /\ \E i, j \in 0..Len(s) : s = Spaces(i) \o t \o Spaces(j)

\* C22: an accepted submit empties the input and calls sendMessage once,
\* with the input without the white space at its ends and with the selected
\* model.
C22_AcceptedSubmitSendsTrimmedInput ==
    [][(Submit /\ SubmitAccepted) =>
         /\ input' = <<>>
         /\ Len(reqs') = Len(reqs) + 1
         /\ IsTrimOf(reqs'[Len(reqs')].text, input)
         /\ reqs'[Len(reqs')].model = model]_vars

C22_Witness ==
    /\ Len(reqs) = 1
    /\ reqs[1].text = <<"h">>
    /\ reqs[1].model = "claude-sonnet-4"
    /\ input = <<>>
    /\ model = "claude-sonnet-4"

\* C23: a response with a null body starts no read loop and leaves the raw
\* buffer as it was, whichever tap is handed the response.
C23_NullBodyTapIsNoOp ==
    [][\A r \in DOMAIN reqs :
         FetchResolve(r, "nullbody") =>
             (taps' = taps /\ rawStream' = rawStream)]_vars

\* The taps started on the response of request r.
TapsOf(r) == {t \in DOMAIN taps : taps[t].req = r}

\* C24: window.fetch is wrapped by at most one interceptor layer, and a
\* response is tapped by at most one interceptor.
C24_AtMostOneInterceptorLayer ==
    /\ Len(Chain(winFetch)) <= 1
    /\ \A r \in DOMAIN reqs : Cardinality(TapsOf(r)) <= 1

\* C25: once every installed one-shot interceptor has tapped its response
\* and no fetch is in flight, window.fetch is the original function again.
C25_OriginalFetchRestored ==
    (/\ wrappers # <<>>
     /\ \A w \in DOMAIN wrappers : wrappers[w].done
     /\ \A r \in DOMAIN reqs : reqs[r].phase \notin {"called", "fetching"})
        => winFetch = 0

\* C26: a one-shot interceptor calls its tap at most once, however many
\* fetches pass through it, and a fetch to another URL passes through
\* untouched: no tap, no layer spent, window.fetch as it was.
C26_OneShotTapsOnce ==
    [][/\ \A w \in DOMAIN wrappers' : wrappers'[w].calls <= 1
       /\ OtherFetch => /\ wrappers' = wrappers
                        /\ taps' = taps
                        /\ winFetch' = winFetch
                        /\ rawStream' = rawStream]_vars

C26_Witness ==
    /\ others = 1
    /\ Len(reqs) = 2
    /\ \A r \in DOMAIN reqs :
          reqs[r].viaHead = 2 /\ reqs[r].phase \notin {"called", "fetching"}
    /\ wrappers[2].calls = 1
    /\ Cardinality(TapsOf(1)) + Cardinality(TapsOf(2)) = 2

\* C27: POST never throws: whichever step fails, it answers 400 with a JSON
\* body carrying error and details, and returns no streamed response.
C27_RelayAnswersFailuresWith400 ==
    /\ relay.phase # "threw"
    /\ relay.fail # "none" =>
          /\ relay.http = 400
          /\ relay.response = "json"
          /\ relay.details # "none"
    /\ relay.response = "stream" => (relay.fail = "none" /\ relay.http = 200)

C27_Witness ==
    /\ relay.fail = "json"
    /\ relay.http = 400
    /\ relay.response = "json"

\* C28: once POST has returned, with the streamed response or with the 400
\* response, no timer armed by the call is pending.
C28_NoTimerPendingAfterReturn ==
    relay.phase \in {"streaming", "finished", "failed"} =>
        relay.timer # "armed"

\* C29: on the loaded settings page the saved URL is the persisted value,
\* or the default when nothing is persisted; Save is enabled exactly when
\* the field differs from the saved URL, Reset exactly when the saved URL is
\* not the default; after Reset the field, the saved URL and the persisted
\* value are the default.
C29_SavedUrlIsPersistedValue ==
    [][/\ settings'.loaded =>
            /\ settings'.savedUrl = PersistedOrDefault'
            /\ SaveEnabled' <=> settings'.endpointUrl # settings'.savedUrl
            /\ ResetEnabled' <=> settings'.savedUrl # DEFAULT_ENDPOINT
       /\ handleReset =>
            /\ settings'.endpointUrl = DEFAULT_ENDPOINT
            /\ settings'.savedUrl = DEFAULT_ENDPOINT
            /\ storage' = DEFAULT_ENDPOINT]_vars

\* C30: what Save has stored (every stored value comes from Save or Reset)
\* is what the chat page and the settings page hold after their next
\* startup load, the empty string included.
C30_SaveThenLoadRoundTrip ==
    [][storage # NoItem =>
         /\ (~chatLoaded /\ chatLoaded') => endpointUrl' = storage
         /\ (~settings.loaded /\ settings'.loaded) =>
               settings'.endpointUrl = storage]_vars

====
